---- MODULE Spec2Model ----
(***************************************************************************)
(* The useLiveSession hook of lex-publica-admin: the session controller    *)
(* (connect / disconnect / toggleMute and the transport callbacks), the    *)
(* capture callback and the playback scheduler.                            *)
(*                                                                         *)
(* The repository holds five versions of the hook; `variant` selects one:  *)
(*   "await"    src/hooks/useLiveSession.ts 21-243  (currentSessionRef,    *)
(*              await live.connect, startAudioInput afterwards)            *)
(*   "promise"  src/hooks/useLiveSession.ts 255-496 (sessionPromiseRef,    *)
(*              getUserMedia inside connect, setupAudioInput in onopen)    *)
(*   "promise0" src/unnamed/part_002 278-480 (as "promise"; no resume      *)
(*              await, interruption resets the cursor to 0 only)           *)
(*   "receive"  src/hooks/useLiveSession.ts 507-728 (callbacks only log,   *)
(*              status set after await live.connect)                       *)
(*   "ws"       src/unnamed/part_005 52-285 (raw WebSocket)                *)
(*                                                                         *)
(* React state read inside a closure is the value of the render that       *)
(* created the closure.  connect() is taken from the latest render, so its *)
(* guard reads the current status; the capture callback is created once    *)
(* per connect() and keeps the isMuted of the render connect() came from   *)
(* (capMuted).                                                             *)
(*                                                                         *)
(* Every connect() that passes its guard is an attempt a \in Attempts; the *)
(* audio contexts, microphone stream, capture processor and session it     *)
(* creates are the device objects inCtx[a], outCtx[a], stream[a],          *)
(* procState[a], sess[a].  A ref holds an attempt number, or NULL.         *)
(* Time is counted in ticks of 50 ms.                                      *)
(***************************************************************************)
EXTENDS Integers, Sequences, FiniteSets, TLC

\* ---------------------------------------------------------------- bounds
MaxAttempts == 2
MaxBlocks == 2
MaxMsgs == 2
MaxTime == 2
MaxDur == 2
\* the longest block handed to a converter or an encoder
MaxLen == 4
\* samples are the fractions n / SampleScale
SampleScale == 65536

\* ------------------------------------------------------ program constants
\* currentTime + 0.05 (one tick of 50 ms)
Lookahead == 1

NULL == 0
\* 16000 Hz, the rate the transport expects; rates are counted in units of 100 Hz
TargetRate == 160
Attempts == 1..MaxAttempts
Variants == {"await", "promise", "promise0", "receive", "ws"}

VARIABLES
  variant,
  \* ctx.sampleRate of the input AudioContext the device gives
  sampleRate,
  \* the latest application of an audio utility: its arguments and its result
  probe,
  \* React state
  status, isMuted, volumeLevel,
  \* refs
  inputAudioContextRef, outputAudioContextRef, streamRef, processorRef,
  inputSourceRef, currentSessionRef, outputNodeRef,
  nextStartTimeRef, audioSourcesRef,
  \* connect() invocations in flight
  nAttempts, pc, capMuted,
  \* device and transport objects
  inCtx, outCtx, stream, procState, procCtx, sess, prom, epoch,
  \* output device: global clock and every source ever started
  now, sources, nMsgs,
  \* inbound messages whose handler is suspended at `await event.data.text()`
  pending,
  \* transport: what was handed to send, in order
  sent, queued, nBlocks,
  \* observation only: the handler that ran last, and what has happened so far
  last, hist

envVars == <<variant, sampleRate, probe>>
hookVars == <<status, isMuted, volumeLevel>>
refVars == <<inputAudioContextRef, outputAudioContextRef, streamRef, processorRef,
             inputSourceRef, currentSessionRef, outputNodeRef>>
playVars == <<nextStartTimeRef, audioSourcesRef, now, sources, nMsgs, pending>>
attVars == <<nAttempts, pc, capMuted>>
devVars == <<inCtx, outCtx, stream, procState, procCtx, sess, prom, epoch>>
capVars == <<sent, queued, nBlocks>>
\* the program's variables (everything but the observations last and hist)
progVars == <<variant, sampleRate, hookVars, refVars, playVars, attVars, devVars, capVars>>
vars == <<variant, sampleRate, probe, hookVars, refVars, playVars, attVars, devVars,
          capVars, last, hist>>

IsAwait == variant = "await"
IsPromise == variant \in {"promise", "promise0"}
IsReceive == variant = "receive"
IsWs == variant = "ws"
\* the versions that keep the session object in currentSessionRef
HoldsSession == variant \in {"await", "receive"}

Ev(op, a) ==
  [op |-> op, a |-> a, audio |-> FALSE, interrupted |-> FALSE, threw |-> "none",
   at |-> "none"]

\* hist.discClean   a disconnect() by the user ran and no connect() started since
\* hist.cancelled   the attempts that were in flight when the user's disconnect() ran
\* hist.sentAtDisc  how much had been sent when the user's disconnect() ran
\* hist.outcome     how the latest attempt failed: "openFailed", "micDenied", or "none"
\* hist.discMark    the number of attempts started before the latest disconnect()
\* hist.opened      the sessions whose onopen has run
\* hist.run         the attempts started since a connect() last found the hook idle
\* hist.disturbed   a disconnect, close, error or failure happened since the latest
\*                  connect() started
\* hist.runStart    the index in sources of the first frame scheduled since the latest
\*                  interruption or disconnect(); 0 when there is none
\* hist.underrun    a later frame of that run was scheduled when the cursor was behind
\*                  the device's current time
InFlight == {a \in Attempts : pc[a] \notin {"idle", "done"}}

InitHook ==
  /\ variant \in Variants
  /\ status = "disconnected"
  /\ isMuted = FALSE
  /\ volumeLevel = 0
  /\ inputAudioContextRef = NULL
  /\ outputAudioContextRef = NULL
  /\ streamRef = NULL
  /\ processorRef = NULL
  /\ inputSourceRef = NULL
  /\ currentSessionRef = NULL
  /\ outputNodeRef = NULL
  /\ nextStartTimeRef = 0
  /\ audioSourcesRef = {}
  /\ nAttempts = 0
  /\ pc = [a \in Attempts |-> "idle"]
  /\ capMuted = [a \in Attempts |-> FALSE]
  /\ inCtx = [a \in Attempts |-> "none"]
  /\ outCtx = [a \in Attempts |-> "none"]
  /\ stream = [a \in Attempts |-> "none"]
  /\ procState = [a \in Attempts |-> "none"]
  /\ procCtx = [a \in Attempts |-> NULL]
  /\ sess = [a \in Attempts |-> "none"]
  /\ prom = [a \in Attempts |-> "none"]
  /\ epoch = [a \in Attempts |-> 0]
  /\ now = 0
  /\ sources = <<>>
  /\ nMsgs = 0
  /\ pending = {}
  /\ sent = <<>>
  /\ queued = <<>>
  /\ nBlocks = 0
  /\ last = Ev("init", NULL)
  /\ hist = [discClean |-> FALSE, cancelled |-> {}, sentAtDisc |-> 0, outcome |-> "none",
             discMark |-> 0, opened |-> {}, run |-> {}, disturbed |-> FALSE,
             runStart |-> 0, underrun |-> FALSE]

\* No audio utility has been applied yet.
NoProbe ==
  [fn |-> "none", conv |-> "none", rate |-> 0, le |-> TRUE, in |-> <<>>, out |-> <<>>,
   bytes |-> <<>>, threw |-> FALSE]

\* The rates an input AudioContext may run at: 8 kHz, 16 kHz, 48 kHz.
CaptureRates == {80, 160, 480}

\* new AudioContextClass() on a device that runs at 48 kHz.
Init == InitHook /\ sampleRate = 480 /\ probe = NoProbe

\* new AudioContextClass() on a device of any of the rates.
InitAnyRate == InitHook /\ sampleRate \in CaptureRates /\ probe = NoProbe

\* ------------------------------------------------------------ disconnect
\* A disconnect() that reports an error when there is nothing to tear down.
StatusAfterUnguardedDisconnect ==
  IF inputAudioContextRef = NULL THEN "error" ELSE "disconnected"

\* setStatus('disconnected')
StatusAfterDisconnect == "disconnected"

\* The body of disconnect(), given the transport state it starts from.
DisconnectEffects(sess0) ==
  /\ currentSessionRef' = IF IsPromise THEN currentSessionRef ELSE NULL
  /\ sess' = IF IsWs /\ currentSessionRef # NULL
                  /\ sess0[currentSessionRef] \in {"opening", "open", "failing"}
             THEN [sess0 EXCEPT ![currentSessionRef] = "closing"]
             ELSE sess0
  /\ procState' = IF processorRef # NULL
                  THEN [procState EXCEPT ![processorRef] = "detached"]
                  ELSE procState
  /\ processorRef' = NULL
  /\ inputSourceRef' = NULL
  /\ stream' = IF streamRef # NULL
               THEN [stream EXCEPT ![streamRef] = "stopped"]
               ELSE stream
  /\ streamRef' = NULL
  /\ inCtx' = IF inputAudioContextRef # NULL
              THEN [inCtx EXCEPT ![inputAudioContextRef] = "closed"]
              ELSE inCtx
  /\ inputAudioContextRef' = NULL
  /\ outCtx' = IF outputAudioContextRef # NULL
               THEN [outCtx EXCEPT ![outputAudioContextRef] = "closed"]
               ELSE outCtx
  /\ outputAudioContextRef' = NULL
  /\ status' = StatusAfterDisconnect
  /\ volumeLevel' = 0
  /\ nextStartTimeRef' = IF variant = "promise" THEN 0 ELSE nextStartTimeRef

Disconnect ==
  /\ DisconnectEffects(sess)
  \* last.a: 2 when the previous handler was disconnect() too, else 1
  /\ last' = Ev("disconnect", IF last.op = "disconnect" THEN 2 ELSE 1)
  /\ hist' = [hist EXCEPT !.discClean = TRUE, !.cancelled = InFlight,
                          !.sentAtDisc = Len(sent), !.outcome = "none",
                          !.discMark = nAttempts, !.disturbed = TRUE,
                          !.runStart = 0, !.underrun = FALSE]
  /\ UNCHANGED <<envVars, isMuted, outputNodeRef, audioSourcesRef, now, sources, nMsgs,
                 pending,
                 attVars, procCtx, prom, epoch, capVars>>

\* --------------------------------------------------------------- connect
\* A guard that forgets the 'connecting' state.
AlreadyActiveConnectedOnly == status = "connected"

\* if (status === 'connected' || status === 'connecting') return;
AlreadyActive == status \in {"connected", "connecting"}

ConnectUpTo(n) ==
  \/ /\ AlreadyActive
     /\ last' = Ev("connectNoop", NULL)
     /\ hist' = hist
     /\ UNCHANGED <<envVars, hookVars, refVars, playVars, attVars, devVars, capVars>>
  \/ /\ ~AlreadyActive
     /\ nAttempts < n
     /\ LET a == nAttempts + 1 IN
        /\ nAttempts' = a
        /\ status' = "connecting"
        /\ capMuted' = [capMuted EXCEPT ![a] = isMuted]
        /\ inCtx' = [inCtx EXCEPT ![a] = "running"]
        /\ outCtx' = [outCtx EXCEPT ![a] = "running"]
        /\ epoch' = [epoch EXCEPT ![a] = now]
        /\ inputAudioContextRef' = a
        /\ outputAudioContextRef' = a
        /\ IF variant = "promise0"
           THEN /\ outputNodeRef' = a
                /\ pc' = [pc EXCEPT ![a] = "mic"]
           ELSE /\ outputNodeRef' = outputNodeRef
                /\ pc' = [pc EXCEPT ![a] = "resume"]
        /\ last' = Ev("connect", a)
        /\ hist' = [hist EXCEPT !.discClean = FALSE, !.cancelled = {}, !.outcome = "none",
                                !.run = IF status \in {"connecting", "connected"}
                                        THEN hist.run \cup {a} ELSE {a},
                                !.disturbed = FALSE]
     /\ UNCHANGED <<envVars, isMuted, volumeLevel, streamRef, processorRef, inputSourceRef,
                    currentSessionRef, playVars, stream, procState, procCtx, sess, prom,
                    capVars>>

\* The continuation after the two `await ...resume()`.
ResumeDone(a) ==
  /\ pc[a] = "resume"
  /\ last' = Ev("resumed", a)
  /\ hist' = hist
  /\ CASE HoldsSession ->
            \* await aiClientRef.current.live.connect({...})
            /\ sess' = [sess EXCEPT ![a] = "opening"]
            /\ prom' = [prom EXCEPT ![a] = "pending"]
            /\ pc' = [pc EXCEPT ![a] = "session"]
            /\ UNCHANGED <<status, outputNodeRef, currentSessionRef>>
       [] IsPromise ->
            \* outputNodeRef.current = outputAudioContextRef.current.createGain()
            IF outputAudioContextRef = NULL
            THEN /\ status' = "error"
                 /\ pc' = [pc EXCEPT ![a] = "done"]
                 /\ UNCHANGED <<sess, prom, outputNodeRef, currentSessionRef>>
            ELSE /\ outputNodeRef' = outputAudioContextRef
                 /\ pc' = [pc EXCEPT ![a] = "mic"]
                 /\ UNCHANGED <<sess, prom, status, currentSessionRef>>
       [] IsWs ->
            \* const ws = new WebSocket(url); ...; wsRef.current = ws; await startAudioInput()
            /\ sess' = [sess EXCEPT ![a] = "opening"]
            /\ currentSessionRef' = a
            /\ pc' = [pc EXCEPT ![a] = "mic"]
            /\ UNCHANGED <<status, prom, outputNodeRef>>
  /\ UNCHANGED <<envVars, isMuted, volumeLevel, inputAudioContextRef, outputAudioContextRef,
                 streamRef, processorRef, inputSourceRef, playVars, nAttempts, capMuted,
                 inCtx, outCtx, stream, procState, procCtx, epoch, capVars>>

\* createMediaStreamSource / createScriptProcessor / onaudioprocess = ... /
\* inputSourceRef.current = source; processorRef.current = processor
\* for the processor of attempt a, on the context the ref holds.
InstallProcessor(a) ==
  /\ procState' = [procState EXCEPT ![a] = "attached"]
  /\ procCtx' = [procCtx EXCEPT ![a] = inputAudioContextRef]
  /\ inputSourceRef' = a
  /\ processorRef' = a

\* getUserMedia resolves.
MicGranted(a) ==
  /\ pc[a] = "mic"
  /\ pc' = [pc EXCEPT ![a] = "done"]
  /\ stream' = [stream EXCEPT ![a] = "live"]
  /\ streamRef' = a
  /\ last' = Ev("micGranted", a)
  /\ hist' = hist
  /\ IF IsPromise
     THEN \* const sessionPromise = live.connect({...}); sessionPromiseRef.current = sessionPromise
          /\ sess' = [sess EXCEPT ![a] = "opening"]
          /\ prom' = [prom EXCEPT ![a] = "pending"]
          /\ currentSessionRef' = a
          /\ UNCHANGED <<procState, procCtx, inputSourceRef, processorRef>>
     ELSE \* startAudioInput: const ctx = inputAudioContextRef.current!; a null ctx
          \* throws into startAudioInput's own catch
          /\ IF inputAudioContextRef = NULL
             THEN UNCHANGED <<procState, procCtx, inputSourceRef, processorRef>>
             ELSE InstallProcessor(a)
          /\ UNCHANGED <<sess, prom, currentSessionRef>>
  /\ UNCHANGED <<envVars, hookVars, inputAudioContextRef, outputAudioContextRef,
                 outputNodeRef, playVars, nAttempts, capMuted, inCtx, outCtx, epoch,
                 capVars>>

\* The status connect() is left with when getUserMedia rejects.
StatusAfterMicDenied == IF IsPromise THEN "error" ELSE status

\* getUserMedia rejects.
MicDenied(a) ==
  /\ pc[a] = "mic"
  /\ pc' = [pc EXCEPT ![a] = "done"]
  /\ status' = StatusAfterMicDenied
  /\ last' = Ev("micDenied", a)
  /\ hist' = [hist EXCEPT !.outcome = IF a = nAttempts THEN "micDenied" ELSE @,
                          !.disturbed = TRUE]
  /\ UNCHANGED <<envVars, isMuted, volumeLevel, refVars, playVars, nAttempts, capMuted,
                 devVars, capVars>>

\* The onopen callback of session a.
OnOpen(a) ==
  /\ sess[a] = "opening"
  /\ sess' = [sess EXCEPT ![a] = "open"]
  /\ last' = Ev("onopen", a)
  /\ hist' = [hist EXCEPT !.opened = @ \cup {a}]
  /\ status' = IF IsReceive THEN status ELSE "connected"
  /\ IF IsPromise /\ inputAudioContextRef # NULL
     THEN InstallProcessor(a)
     ELSE UNCHANGED <<procState, procCtx, inputSourceRef, processorRef>>
  /\ sent' = IF IsWs
             THEN Append(sent, [kind |-> "setup", to |-> a, blk |-> 0, muted |-> isMuted,
                                st |-> status, live |-> TRUE])
             ELSE sent
  \* setTimeout(() => { ...; ws.send(JSON.stringify(clientContent)); }, 1000);
  /\ queued' = IF IsWs
               THEN Append(queued, [kind |-> "greeting", to |-> a, blk |-> 0,
                                    muted |-> isMuted, st |-> status, live |-> TRUE])
               ELSE queued
  /\ UNCHANGED <<envVars, isMuted, volumeLevel, inputAudioContextRef, outputAudioContextRef,
                 streamRef, currentSessionRef, outputNodeRef, playVars, attVars,
                 inCtx, outCtx, stream, prom, epoch, nBlocks>>

\* The greeting timer armed by the onopen of socket a fires, one second later:
\* ws.send(JSON.stringify(clientContent)), whatever has happened since. A socket that
\* is closing or closed discards what send is given.
GreetingTimer(a) ==
  /\ IsWs
  /\ \E i \in DOMAIN queued : queued[i].kind = "greeting" /\ queued[i].to = a
  /\ queued' = SelectSeq(queued, LAMBDA r : ~(r.kind = "greeting" /\ r.to = a))
  /\ sent' = IF sess[a] = "open"
             THEN Append(sent, [kind |-> "greeting", to |-> a, blk |-> 0,
                                muted |-> isMuted, st |-> status, live |-> TRUE])
             ELSE sent
  /\ last' = Ev("timer", a)
  /\ hist' = hist
  /\ UNCHANGED <<envVars, hookVars, refVars, playVars, attVars, devVars, nBlocks>>

RECURSIVE Reverse(_)
Reverse(q) == IF q = <<>> THEN <<>> ELSE Append(Reverse(Tail(q)), Head(q))

\* Callbacks that run last-registered first.
FlushToReversed(a) == Reverse(SelectSeq(queued, LAMBDA r : r.to = a))

\* The frames handed to send when the promise of session a resolves: the
\* .then(session => session.sendRealtimeInput(...)) callbacks, in registration order.
FlushTo(a) == SelectSeq(queued, LAMBDA r : r.to = a)

\* The promise of live.connect resolves with the session.
SessionResolved(a) ==
  /\ prom[a] = "pending"
  /\ sess[a] = "open"
  /\ prom' = [prom EXCEPT ![a] = "resolved"]
  /\ last' = Ev("resolved", a)
  /\ hist' = hist
  /\ IF HoldsSession
     THEN \* currentSessionRef.current = session; ...; await startAudioInput()
          /\ currentSessionRef' = a
          /\ status' = IF IsReceive THEN "connected" ELSE status
          /\ pc' = [pc EXCEPT ![a] = "mic"]
          /\ UNCHANGED <<sent, queued>>
     ELSE \* the .then(session => session.sendRealtimeInput(...)) registered so far run
          /\ sent' = sent \o FlushTo(a)
          /\ queued' = SelectSeq(queued, LAMBDA r : r.to # a)
          /\ UNCHANGED <<currentSessionRef, status, pc>>
  /\ UNCHANGED <<envVars, isMuted, volumeLevel, inputAudioContextRef, outputAudioContextRef,
                 streamRef, processorRef, inputSourceRef, outputNodeRef, playVars,
                 nAttempts, capMuted, inCtx, outCtx, stream, procState, procCtx, sess, epoch,
                 nBlocks>>

\* The promise of live.connect rejects.
SessionRejected(a) ==
  /\ prom[a] = "pending"
  /\ sess[a] \in {"opening", "failing"}
  /\ prom' = [prom EXCEPT ![a] = "rejected"]
  /\ last' = Ev("rejected", a)
  /\ hist' = [hist EXCEPT !.outcome = IF a = nAttempts THEN "openFailed" ELSE @,
                          !.discMark = IF HoldsSession THEN nAttempts ELSE @,
                          !.disturbed = TRUE]
  /\ IF HoldsSession
     THEN \* catch (error) { setStatus('error'); disconnect(); }
          /\ DisconnectEffects([sess EXCEPT ![a] = "closed"])
          /\ pc' = [pc EXCEPT ![a] = "done"]
          /\ UNCHANGED queued
     ELSE \* nothing awaits the promise; the callbacks queued behind it never run
          /\ sess' = [sess EXCEPT ![a] = "closed"]
          /\ queued' = SelectSeq(queued, LAMBDA r : r.to # a)
          /\ UNCHANGED <<status, volumeLevel, inputAudioContextRef, outputAudioContextRef,
                         streamRef, processorRef, inputSourceRef, currentSessionRef,
                         nextStartTimeRef, pc, inCtx, outCtx, stream, procState>>
  /\ UNCHANGED <<envVars, isMuted, outputNodeRef, audioSourcesRef, now, sources, nMsgs,
                 pending,
                 nAttempts, capMuted, procCtx, epoch, sent, nBlocks>>

\* The status after the onerror callback.
StatusOnError == IF IsReceive THEN status ELSE "error"
\* The status after the onclose callback.
StatusOnClose == IF IsReceive THEN status ELSE "disconnected"

\* The transport reports an error: the onerror callback.
OnError(a) ==
  /\ sess[a] \in {"opening", "open"}
  /\ sess' = [sess EXCEPT ![a] = "failing"]
  /\ status' = StatusOnError
  /\ last' = Ev("onerror", a)
  /\ hist' = [hist EXCEPT !.disturbed = TRUE]
  /\ UNCHANGED <<envVars, isMuted, volumeLevel, refVars, playVars, attVars,
                 inCtx, outCtx, stream, procState, procCtx, prom, epoch, capVars>>

\* The transport closes: the onclose callback.
OnClose(a) ==
  /\ sess[a] \in {"open", "failing", "closing"}
  /\ sess' = [sess EXCEPT ![a] = "closed"]
  /\ status' = StatusOnClose
  /\ last' = Ev("onclose", a)
  /\ hist' = [hist EXCEPT !.disturbed = TRUE]
  /\ UNCHANGED <<envVars, isMuted, volumeLevel, refVars, playVars, attVars,
                 inCtx, outCtx, stream, procState, procCtx, prom, epoch, capVars>>

\* A toggle that only mutes.
MutedAfterToggleOn == TRUE

\* setIsMuted(p => !p)
MutedAfterToggle == ~isMuted

\* const toggleMute = () => setIsMuted(p => !p)
ToggleMute ==
  /\ isMuted' = MutedAfterToggle
  /\ last' = Ev("toggleMute", NULL)
  /\ hist' = hist
  /\ UNCHANGED <<envVars, status, volumeLevel, refVars, playVars, attVars, devVars, capVars>>


\* -------------------------------------------------------- audio utilities
\* A sample is the fraction n / d; d = 0 stands for NaN.  Float32 rounding is left out.
Smp(n) == [n |-> n, d |-> SampleScale]
NaN == [n |-> 0, d |-> 0]

Min(x, y) == IF x <= y THEN x ELSE y
\* Math.floor(n / d) and Math.round(n / d) (a half goes up), for d > 0
Floor(n, d) == n \div d
Round(n, d) == (2 * n + d) \div (2 * d)
\* the integer part of n / d, towards zero
Trunc(n, d) == IF n >= 0 THEN n \div d ELSE -((-n) \div d)

RECURSIVE SumN(_, _, _)
SumN(buffer, lo, hi) == IF lo > hi THEN 0 ELSE buffer[lo].n + SumN(buffer, lo + 1, hi)

\* for (let j = from; j < to; j++) { sum += buffer[j]; count++; }   sum / count
\* (the samples of one buffer have one denominator)
Mean(buffer, from, to) ==
  [n |-> SumN(buffer, from + 1, to), d |-> (to - from) * buffer[from + 1].d]

\* The three downsampleBuffer of the repository:
\*   "services"  src/services/audioUtils.ts 47-81
\*   "part_000"  src/unnamed/part_000 35-69
\*   "part_005"  src/unnamed/part_005 28-48
Converters == {"services", "part_000", "part_005"}

\* A converter that returns an empty buffer where the code returns its argument.
PassThroughNothing(buffer) == <<>>

\* return buffer;
PassThrough(buffer) == buffer

\* An output length that is the input length.
NewLengthSame(conv, len, inputRate, targetRate) == len

\* const newLength = Math.floor(buffer.length / sampleRateRatio);
\* const newLength = Math.round(buffer.length / sampleRateRatio);      (part_005)
NewLength(conv, len, inputRate, targetRate) ==
  IF conv = "part_005" THEN Round(len * targetRate, inputRate)
  ELSE Floor(len * targetRate, inputRate)

\* count after the inner loop of output sample i (counted from 1):
\*   for (let j = startOffset; j < finalOffset; j++) { ... count++; }
\*   for (let i = offsetBuffer; i < nextOffsetBuffer && i < buffer.length; i++) { ... count++; }
WindowCount(conv, len, inputRate, targetRate, i) ==
  LET from == IF conv = "services" THEN Floor((i - 1) * inputRate, targetRate)
              ELSE Round((i - 1) * inputRate, targetRate)
      to == IF conv = "services" THEN Floor(i * inputRate, targetRate)
            ELSE Round(i * inputRate, targetRate)
  IN IF Min(to, len) > from THEN Min(to, len) - from ELSE 0

\* The averaging loop of src/services/audioUtils.ts 59-78.
ResampleWindow(buffer, inputRate, targetRate, i) ==
  LET startOffset == Floor((i - 1) * inputRate, targetRate)
      endOffset == Floor(i * inputRate, targetRate)
      finalOffset == Min(endOffset, Len(buffer))
  IN IF finalOffset > startOffset THEN Mean(buffer, startOffset, finalOffset)
     ELSE IF startOffset < Len(buffer) THEN buffer[startOffset + 1] ELSE NaN

\* The averaging loop of part_000 51-66 and part_005 36-46:
\*   result[offsetResult] = count > 0 ? accum / count : 0;      (part_000)
\*   result[offsetResult] = accum / count;                      (part_005)
ResampleRun(conv, buffer, inputRate, targetRate, k) ==
  LET offsetBuffer == Round((k - 1) * inputRate, targetRate)
      nextOffsetBuffer == Round(k * inputRate, targetRate)
      stop == Min(nextOffsetBuffer, Len(buffer))
  IN IF stop > offsetBuffer THEN Mean(buffer, offsetBuffer, stop)
     ELSE IF conv = "part_000" THEN [n |-> 0, d |-> 1] ELSE NaN

Resample(conv, buffer, inputRate, targetRate) ==
  LET newLength == NewLength(conv, Len(buffer), inputRate, targetRate) IN
  IF newLength = 0 THEN <<>>
  ELSE [i \in 1..newLength |->
          IF conv = "services" THEN ResampleWindow(buffer, inputRate, targetRate, i)
          ELSE ResampleRun(conv, buffer, inputRate, targetRate, i)]

\* A converter that resamples where the code refuses or passes through.
UpsamplingResampled(conv, buffer, inputRate, targetRate) ==
  [threw |-> FALSE, out |-> Resample(conv, buffer, inputRate, targetRate)]

\* if (inputRate < targetRate) throw new Error("Upsampling is not supported");
\* if (inputRate < targetRate) return buffer;          (part_000, part_005)
Upsampling(conv, buffer, inputRate, targetRate) ==
  IF conv = "services" THEN [threw |-> TRUE, out |-> <<>>]
  ELSE [threw |-> FALSE, out |-> PassThrough(buffer)]

downsampleBuffer(conv, buffer, inputRate, targetRate) ==
  IF inputRate = targetRate THEN [threw |-> FALSE, out |-> PassThrough(buffer)]
  ELSE IF inputRate < targetRate THEN Upsampling(conv, buffer, inputRate, targetRate)
  ELSE [threw |-> FALSE, out |-> Resample(conv, buffer, inputRate, targetRate)]

\* The two encoders of the repository:
\*   "dataview"    floatTo16BitPCM of src/hooks/useLiveSession.ts 11-19 and part_005 8-16
\*                 (DataView.setInt16(i * 2, val, true))
\*   "int16array"  floatTo16BitPCM of part_000 20-29 and createPcmBlob of
\*                 src/services/audioUtils.ts 83-95 (Int16Array, the host's byte order)
Encoders == {"dataview", "int16array"}

\* An encoder that does not clamp.
ClampNothing(s) == s

\* Math.max(-1, Math.min(1, data[i]))
Clamp(s) ==
  IF s.d = 0 THEN s
  ELSE IF s.n >= s.d THEN [n |-> 1, d |-> 1]
  ELSE IF s.n <= -s.d THEN [n |-> -1, d |-> 1]
  ELSE s

\* An encoder that scales non-negative samples by 0x7FFE.
PcmScaleCoarse(s) == IF s.n < 0 THEN 32768 ELSE 32766

\* s < 0 ? s * 0x8000 : s * 0x7FFF
PcmScale(s) == IF s.n < 0 THEN 32768 ELSE 32767

\* The conversion of a number to Int16: the integer part, wrapped to 16 bits.
ToInt16(v) == LET m == v % 65536 IN IF m >= 32768 THEN m - 65536 ELSE m

\* The 16-bit value stored for the sample s (NaN is stored as 0).
Pcm16(s) ==
  IF s.d = 0 THEN 0
  ELSE LET c == Clamp(s) IN ToInt16(Trunc(c.n * PcmScale(c), c.d))

\* The two bytes of the 16-bit value v.
Bytes16(v, le) ==
  LET u == v % 65536 IN IF le THEN <<u % 256, u \div 256>> ELSE <<u \div 256, u % 256>>

RECURSIVE PcmBytes(_, _)
PcmBytes(input, le) ==
  IF input = <<>> THEN <<>>
  ELSE Bytes16(Pcm16(Head(input)), le) \o PcmBytes(Tail(input), le)

\* The buffer the encoder returns; hostLE: the host stores integers little-endian.
floatTo16BitPCM(enc, input, hostLE) == PcmBytes(input, enc = "dataview" \/ hostLE)

\* The bytes createPcmBlob hands to arrayBufferToBase64.
createPcmBlob(data, hostLE) == floatTo16BitPCM("int16array", data, hostLE)

\* dataInt16[i] of new Int16Array(data.buffer)
Int16At(data, i, hostLE) ==
  LET lo == IF hostLE THEN data[2 * i - 1] ELSE data[2 * i]
      hi == IF hostLE THEN data[2 * i] ELSE data[2 * i - 1]
  IN ToInt16(hi * 256 + lo)

\* decodeAudioData: new Int16Array(data.buffer) throws a RangeError on an odd number
\* of bytes, ctx.createBuffer throws on a length of 0;
\* channelData[i] = dataInt16[i] / 32768.0
decodeAudioData(data, hostLE) ==
  IF Len(data) % 2 # 0 \/ Len(data) = 0 THEN [threw |-> TRUE, out |-> <<>>]
  ELSE [threw |-> FALSE,
        out |-> [i \in 1..(Len(data) \div 2) |->
                   [n |-> Int16At(data, i, hostLE), d |-> 32768]]]

\* A base64 string is the sequence of its characters: 0..63 for the alphabet, Pad for '='.
Pad == 64

\* An encoding that leaves out the last, incomplete group of bytes.
RECURSIVE btoaWholeGroups(_)
btoaWholeGroups(binary) ==
  IF Len(binary) < 3 THEN <<>>
  ELSE <<binary[1] \div 4, (binary[1] % 4) * 16 + binary[2] \div 16,
         (binary[2] % 16) * 4 + binary[3] \div 64, binary[3] % 64>>
       \o btoaWholeGroups(SubSeq(binary, 4, Len(binary)))

\* btoa: three bytes give four characters; one or two bytes left over give two or
\* three characters and padding.
RECURSIVE btoa(_)
btoa(binary) ==
  CASE Len(binary) = 0 -> <<>>
    [] Len(binary) = 1 -> <<binary[1] \div 4, (binary[1] % 4) * 16, Pad, Pad>>
    [] Len(binary) = 2 ->
         <<binary[1] \div 4, (binary[1] % 4) * 16 + binary[2] \div 16,
           (binary[2] % 16) * 4, Pad>>
    [] OTHER ->
         <<binary[1] \div 4, (binary[1] % 4) * 16 + binary[2] \div 16,
           (binary[2] % 16) * 4 + binary[3] \div 64, binary[3] % 64>>
         \o btoa(SubSeq(binary, 4, Len(binary)))

\* The characters of a base64 string without its trailing padding.
RECURSIVE Unpadded(_)
Unpadded(b64) ==
  IF b64 # <<>> /\ b64[Len(b64)] = Pad /\ Len(b64) % 4 = 0
     /\ (Len(b64) < 2 \/ b64[Len(b64) - 1] # Pad)
  THEN SubSeq(b64, 1, Len(b64) - 1)
  ELSE IF Len(b64) >= 2 /\ b64[Len(b64)] = Pad /\ b64[Len(b64) - 1] = Pad
          /\ Len(b64) % 4 = 0
  THEN SubSeq(b64, 1, Len(b64) - 2)
  ELSE b64

\* The bytes of unpadded base64 characters: four characters give three bytes, two or
\* three left over give one or two.
RECURSIVE AtobBytes(_)
AtobBytes(chars) ==
  CASE Len(chars) < 2 -> <<>>
    [] Len(chars) = 2 -> <<chars[1] * 4 + chars[2] \div 16>>
    [] Len(chars) = 3 ->
         <<chars[1] * 4 + chars[2] \div 16, (chars[2] % 16) * 16 + chars[3] \div 4>>
    [] OTHER ->
         <<chars[1] * 4 + chars[2] \div 16, (chars[2] % 16) * 16 + chars[3] \div 4,
           (chars[3] % 4) * 64 + chars[4]>>
         \o AtobBytes(SubSeq(chars, 5, Len(chars)))

\* atob: throws when a character is left that is not of the alphabet, or when one
\* character is left over.
atob(b64) ==
  LET chars == Unpadded(b64) IN
  IF (\E i \in DOMAIN chars : chars[i] = Pad) \/ Len(chars) % 4 = 1
  THEN [threw |-> TRUE, out |-> <<>>]
  ELSE [threw |-> FALSE, out |-> AtobBytes(chars)]

\* binary += String.fromCharCode(bytes[i]);  return btoa(binary);
arrayBufferToBase64(buffer) == btoa(buffer)

\* const binaryString = atob(base64);  bytes[i] = binaryString.charCodeAt(i);
base64ToUint8Array(base64) == atob(base64)

\* The converter and the encoder the capture callback of each hook uses; the hook of
\* part_002 278-480 asks for a 16 kHz context and does not convert.
Converter ==
  CASE variant \in {"await", "promise"} -> "services"
    [] variant = "receive" -> "part_000"
    [] variant = "ws" -> "part_005"
    [] OTHER -> "none"

Encoder == IF variant \in {"await", "ws"} THEN "dataview" ELSE "int16array"

\* if (ctx.sampleRate !== 16000) dataToProcess = downsampleBuffer(inputData, ctx.sampleRate, 16000);
Downsampled(buffer, rate) ==
  IF Converter = "none" THEN [threw |-> FALSE, out |-> buffer]
  ELSE downsampleBuffer(Converter, buffer, rate, TargetRate)

\* ---- the utilities applied to inputs drawn from bounded sets, one application
\* ---- per behaviour
Rates == {80, 160, 240, 441, 480}
BlockSamples == {[n |-> k, d |-> 4] : k \in {-4, 0, 3}}
EncSamples ==
  {Smp(n) : n \in {1 - SampleScale, -1, 0, 1, SampleScale \div 2, SampleScale - 1}}
  \cup {[n |-> k, d |-> 1] : k \in {-2, -1, 1, 2}}
ByteValues == {0, 1, 128, 255}
Base64Chars == {0, 1, 63, Pad}
SeqsUpTo(S, n) == UNION {[1..k -> S] : k \in 0..n}

Downsample(conv, buffer, rate) ==
  /\ probe.fn = "none"
  /\ LET r == downsampleBuffer(conv, buffer, rate, TargetRate) IN
     probe' = [fn |-> "downsampleBuffer", conv |-> conv, rate |-> rate, le |-> TRUE,
               in |-> buffer, out |-> r.out, bytes |-> <<>>, threw |-> r.threw]
  /\ UNCHANGED <<variant, sampleRate, hookVars, refVars, playVars, attVars, devVars,
                 capVars, last, hist>>

Encode(enc, input, hostLE) ==
  /\ probe.fn = "none"
  /\ probe' = [fn |-> "floatTo16BitPCM", conv |-> enc, rate |-> 0, le |-> hostLE,
               in |-> input, out |-> <<>>, bytes |-> floatTo16BitPCM(enc, input, hostLE),
               threw |-> FALSE]
  /\ UNCHANGED <<variant, sampleRate, hookVars, refVars, playVars, attVars, devVars,
                 capVars, last, hist>>

Decode(data, hostLE) ==
  /\ probe.fn = "none"
  /\ LET r == decodeAudioData(data, hostLE) IN
     probe' = [fn |-> "decodeAudioData", conv |-> "none", rate |-> 0, le |-> hostLE,
               in |-> <<>>, out |-> r.out, bytes |-> data, threw |-> r.threw]
  /\ UNCHANGED <<variant, sampleRate, hookVars, refVars, playVars, attVars, devVars,
                 capVars, last, hist>>

ToBase64(buffer) ==
  /\ probe.fn = "none"
  /\ probe' = [fn |-> "arrayBufferToBase64", conv |-> "none", rate |-> 0, le |-> TRUE,
               in |-> <<>>, out |-> arrayBufferToBase64(buffer), bytes |-> buffer,
               threw |-> FALSE]
  /\ UNCHANGED <<variant, sampleRate, hookVars, refVars, playVars, attVars, devVars,
                 capVars, last, hist>>

FromBase64(base64) ==
  /\ probe.fn = "none"
  /\ LET r == base64ToUint8Array(base64) IN
     probe' = [fn |-> "base64ToUint8Array", conv |-> "none", rate |-> 0, le |-> TRUE,
               in |-> base64, out |-> <<>>, bytes |-> r.out, threw |-> r.threw]
  /\ UNCHANGED <<variant, sampleRate, hookVars, refVars, playVars, attVars, devVars,
                 capVars, last, hist>>

\* The capture callback's conversion of one block at the rate `rate`: downsample, encode.
EncodeFrame(buffer, rate, hostLE) ==
  /\ probe.fn = "none"
  /\ LET r == Downsampled(buffer, rate) IN
     probe' = [fn |-> "frame", conv |-> variant, rate |-> rate, le |-> hostLE,
               in |-> buffer, out |-> r.out,
               bytes |-> IF r.threw THEN <<>> ELSE floatTo16BitPCM(Encoder, r.out, hostLE),
               threw |-> r.threw]
  /\ UNCHANGED <<variant, sampleRate, hookVars, refVars, playVars, attVars, devVars,
                 capVars, last, hist>>

\* ------------------------------------------------------- capture pipeline
Levels == {1, 2}

Frame(to, blk) ==
  [kind |-> "audio", to |-> to, blk |-> blk, muted |-> isMuted, st |-> status,
   live |-> sess[to] = "open", early |-> sess[to] \in {"none", "opening"}]

\* if (isMuted) return;   (the isMuted of the closure)
MuteGate(a) == capMuted[a]

\* Whether the callback gets past its session guard:
\*   if (!currentSessionRef.current) return;
\*   if (... || !wsRef.current || wsRef.current.readyState !== WebSocket.OPEN) return;
\* (the sessionPromiseRef versions test the ref after the loudness update)
SessionReady ==
  CASE HoldsSession -> currentSessionRef # NULL
    [] IsWs -> currentSessionRef # NULL /\ sess[currentSessionRef] = "open"
    [] IsPromise -> TRUE

\* Whether downsampleBuffer throws at the rate of the input context (it does not look
\* at the block before it throws).
DownsampleThrows == Downsampled(<<>>, sampleRate).threw

\* Whether this run of the callback reaches the transport's send before it returns
\* (a send inside .then of a pending promise runs later, when the promise resolves).
CallsSend(a) ==
  /\ ~MuteGate(a)
  /\ SessionReady
  /\ ~DownsampleThrows
  /\ IsPromise => (currentSessionRef # NULL /\ prom[currentSessionRef] = "resolved")

\* What becomes of an exception thrown by the transport's send:
\*   try { currentSessionRef.current.send({...}); } catch (error) { }
\*   try { wsRef.current.send(...); } catch (error) { /* Ignore */ }
\*   sessionPromiseRef.current.then(session => { session.sendRealtimeInput(...); });
\*   currentSessionRef.current.send({...});          (session.receive version)
SendOutcome(fails) ==
  CASE ~fails -> "none"
    [] fails /\ IsReceive -> "escaped"
    [] fails /\ IsPromise -> "rejected"
    [] OTHER -> "caught"

\* processor.onaudioprocess for the processor attempt a installed, on a block of
\* loudness lvl; fails: the transport's send throws on this block.
\* sent is the sequence of frames handed to the transport's send.
CaptureBlock(a, lvl, fails) ==
  /\ procState[a] = "attached"
  /\ inCtx[procCtx[a]] = "running"
  /\ nBlocks < MaxBlocks
  /\ fails => CallsSend(a)
  /\ nBlocks' = nBlocks + 1
  /\ last' = CASE fails -> [Ev("capture", a) EXCEPT !.threw = SendOutcome(fails),
                                                       !.at = "send"]
               [] ~fails /\ ~MuteGate(a) /\ SessionReady /\ DownsampleThrows ->
                    [Ev("capture", a) EXCEPT !.threw = "escaped", !.at = "downsample"]
               [] OTHER -> Ev("capture", a)
  /\ hist' = hist
  /\ IF MuteGate(a) \/ ~SessionReady
     THEN UNCHANGED <<volumeLevel, sent, queued>>
     ELSE /\ volumeLevel' = lvl
          /\ IF DownsampleThrows
             THEN \* the exception leaves the callback: nothing is encoded or sent
                  UNCHANGED <<sent, queued>>
             ELSE IF IsPromise
             THEN \* if (sessionPromiseRef.current) sessionPromiseRef.current.then(...)
                  CASE currentSessionRef = NULL -> UNCHANGED <<sent, queued>>
                    [] currentSessionRef # NULL /\ prom[currentSessionRef] = "resolved" ->
                         /\ sent' = Append(sent, Frame(currentSessionRef, nBlocks + 1))
                         /\ queued' = queued
                    [] currentSessionRef # NULL /\ prom[currentSessionRef] = "pending" ->
                         /\ queued' = Append(queued, Frame(currentSessionRef, nBlocks + 1))
                         /\ sent' = sent
                    [] OTHER -> UNCHANGED <<sent, queued>>
             ELSE /\ sent' = Append(sent, Frame(currentSessionRef, nBlocks + 1))
                  /\ queued' = queued
  /\ UNCHANGED <<envVars, status, isMuted, refVars, playVars, attVars, devVars>>

\* ---------------------------------------------------- playback scheduler
CurrentTime(c) == now - epoch[c]

\* A scheduler that forgets the clamp to the device's current time.
ClampedStartNoClamp(next, cur) == next

\* A scheduler that starts every frame at the device's current time.
ClampedStartAlwaysNow(next, cur) == cur

\* if (nextStartTimeRef.current < currentTime) nextStartTimeRef.current = currentTime (+ 0.05)
ClampedStart(next, cur) ==
  IF next < cur THEN (IF IsPromise THEN cur ELSE cur + Lookahead) ELSE next

\* Whether an audio payload is scheduled at all.
CanPlay ==
  IF IsPromise THEN outputAudioContextRef # NULL /\ outputNodeRef # NULL
  ELSE outputAudioContextRef # NULL

\* The scheduler state st = [next, srcs, set] after an audio payload of duration d.
PlayAudio(st, d, m) ==
  IF ~CanPlay THEN st
  ELSE LET start == ClampedStart(st.next, CurrentTime(outputAudioContextRef))
           src == [ctx |-> outputAudioContextRef, start |-> start, dur |-> d,
                   stopped |-> FALSE, msg |-> m]
       IN [next |-> start + d,
           srcs |-> Append(st.srcs, src),
           set |-> IF IsPromise THEN st.set \cup {Len(st.srcs) + 1} ELSE st.set]

\* The cursor after an interruption.
CursorAfterInterrupt(next) ==
  CASE variant = "promise0" -> 0
    [] variant = "promise" ->
         IF outputAudioContextRef # NULL THEN CurrentTime(outputAudioContextRef) ELSE 0
    [] OTHER ->
         IF outputAudioContextRef # NULL THEN CurrentTime(outputAudioContextRef) ELSE next

\* The sources after an interruption: the tracked ones are stopped.
StopTracked(srcs, set) ==
  [i \in DOMAIN srcs |-> IF i \in set THEN [srcs[i] EXCEPT !.stopped = TRUE] ELSE srcs[i]]

\* The scheduler state after the `interrupted` branch.
Interrupt(st) ==
  [next |-> CursorAfterInterrupt(st.next),
   srcs |-> IF IsPromise THEN StopTracked(st.srcs, st.set) ELSE st.srcs,
   set |-> {}]

\* The body of the message handler for message number m of session a: an audio
\* payload of duration d (0: none) and the interrupted flag.
\* In the session.receive version onmessage is `() => {}`: the callback leaves the
\* scheduler alone (its for-await loop over session.receive() is outside this action).
HandleMessage(a, d, interrupted, m) ==
  /\ last' = [op |-> "message", a |-> a, audio |-> d > 0, interrupted |-> interrupted,
               threw |-> "none", at |-> "none"]
  /\ LET scheduled == d > 0 /\ ~IsReceive /\ CanPlay IN
     hist' = [hist EXCEPT
                !.runStart = IF interrupted THEN 0
                             ELSE IF scheduled /\ @ = 0 THEN Len(sources) + 1 ELSE @,
                !.underrun = IF interrupted THEN FALSE
                             ELSE IF scheduled /\ hist.runStart # 0
                                     /\ nextStartTimeRef < CurrentTime(outputAudioContextRef)
                                  THEN TRUE ELSE @]
  /\ LET st0 == [next |-> nextStartTimeRef, srcs |-> sources, set |-> audioSourcesRef]
         st1 == IF d > 0 THEN PlayAudio(st0, d, m) ELSE st0
         st2 == IF interrupted THEN Interrupt(st1) ELSE st1
         st == IF IsReceive THEN st0 ELSE st2
     IN /\ nextStartTimeRef' = st.next
        /\ sources' = st.srcs
        /\ audioSourcesRef' = st.set

\* The onmessage callback of session a, run to its end: an audio payload of duration
\* d (0: none) and the interrupted flag.
ServerMessage(a, d, interrupted) ==
  /\ sess[a] = "open"
  /\ nMsgs < MaxMsgs
  /\ d > 0 \/ interrupted
  /\ nMsgs' = nMsgs + 1
  /\ HandleMessage(a, d, interrupted, nMsgs + 1)
  /\ UNCHANGED <<envVars, hookVars, refVars, now, pending, attVars, devVars, capVars>>

\* The audio payloads that cannot be decoded: text that is not base64 (atob throws),
\* and an odd number of bytes (new Int16Array(bytes.buffer) throws).
Malformed == {"base64", "odd"}

PayloadThrows(kind) ==
  IF kind = "base64" THEN TRUE ELSE decodeAudioData(<<0, 0, 0>>, TRUE).threw

\* What becomes of the exception the decoding throws:
\*   playAudioChunk(base64Audio);  an async function without try   (useLiveSession.ts)
\*   try { ... } catch (err) { console.error("Decode error", err); }        (part_005)
\*   const audioBuffer = await decodeAudioData(...);  in the async handler, no try
DecodeOutcome ==
  CASE IsReceive \/ ~CanPlay -> "none"
    [] ~IsReceive /\ CanPlay /\ IsWs -> "caught"
    [] OTHER -> "rejected"

\* The onmessage callback of session a on a message whose audio payload is malformed.
\* In the sessionPromiseRef versions the exception ends the handler before it looks at
\* the interrupted flag.
MalformedMessage(a, kind, interrupted) ==
  /\ sess[a] = "open"
  /\ nMsgs < MaxMsgs
  /\ PayloadThrows(kind)
  /\ nMsgs' = nMsgs + 1
  /\ LET applied == interrupted /\ ~IsReceive /\ ~(IsPromise /\ DecodeOutcome = "rejected")
         st0 == [next |-> nextStartTimeRef, srcs |-> sources, set |-> audioSourcesRef]
         st == IF applied THEN Interrupt(st0) ELSE st0
     IN /\ last' = [op |-> "message", a |-> a, audio |-> FALSE,
                    interrupted |-> interrupted, threw |-> DecodeOutcome,
                    at |-> IF DecodeOutcome = "none" THEN "none" ELSE "decode"]
        /\ hist' = IF applied THEN [hist EXCEPT !.runStart = 0, !.underrun = FALSE]
                   ELSE hist
        /\ nextStartTimeRef' = st.next
        /\ sources' = st.srcs
        /\ audioSourcesRef' = st.set
  /\ UNCHANGED <<envVars, hookVars, refVars, now, pending, attVars, devVars, capVars>>

\* ws.onmessage with a Blob: the handler suspends at
\*   data = JSON.parse(await event.data.text());
MessageDeferred(a, d, interrupted) ==
  /\ IsWs
  /\ sess[a] = "open"
  /\ nMsgs < MaxMsgs
  /\ d > 0 \/ interrupted
  /\ nMsgs' = nMsgs + 1
  /\ pending' = pending \cup {[a |-> a, d |-> d, interrupted |-> interrupted,
                               msg |-> nMsgs + 1]}
  /\ last' = Ev("arrived", a)
  /\ hist' = hist
  /\ UNCHANGED <<envVars, hookVars, refVars, nextStartTimeRef, audioSourcesRef, now,
                 sources, attVars, devVars, capVars>>

\* The text of a Blob has been read: the rest of ws.onmessage runs.
MessageRead(p) ==
  /\ p \in pending
  /\ pending' = pending \ {p}
  /\ HandleMessage(p.a, p.d, p.interrupted, p.msg)
  /\ UNCHANGED <<envVars, hookVars, refVars, now, nMsgs, attVars, devVars, capVars>>

\* The output device's clock advances by one tick.
Tick ==
  /\ now < MaxTime
  /\ now' = now + 1
  /\ last' = Ev("tick", NULL)
  /\ hist' = hist
  /\ UNCHANGED <<envVars, hookVars, refVars, nextStartTimeRef, audioSourcesRef, sources,
                 nMsgs, pending, attVars, devVars, capVars>>

Finished(i) ==
  /\ outCtx[sources[i].ctx] = "running"
  /\ sources[i].start + sources[i].dur <= CurrentTime(sources[i].ctx)

\* source.onended = () => { audioSourcesRef.current.delete(source); }
OnEnded(i) ==
  /\ i \in audioSourcesRef
  /\ Finished(i)
  /\ audioSourcesRef' = audioSourcesRef \ {i}
  /\ last' = Ev("onended", i)
  /\ hist' = hist
  /\ UNCHANGED <<envVars, hookVars, refVars, nextStartTimeRef, now, sources, nMsgs, pending,
                 attVars, devVars, capVars>>

\* ---------------------------------------------------------- specifications
Connect == ConnectUpTo(MaxAttempts)
ConnectOnce == ConnectUpTo(1)

LifeStep(a) ==
  \/ ResumeDone(a)
  \/ MicGranted(a)
  \/ MicDenied(a)
  \/ OnOpen(a)
  \/ SessionResolved(a)
  \/ SessionRejected(a)
  \/ OnError(a)
  \/ OnClose(a)
  \/ GreetingTimer(a)

\* The session controller: connect, disconnect and the transport callbacks.
Next ==
  \/ Connect
  \/ Disconnect
  \/ \E a \in Attempts : LifeStep(a)

Spec == Init /\ [][Next]_vars

\* One connect() with the mute toggle and the capture callback.
NextCapture ==
  \/ ConnectOnce
  \/ Disconnect
  \/ ToggleMute
  \/ \E a \in Attempts : LifeStep(a)
  \/ \E a \in Attempts, lvl \in Levels, fails \in BOOLEAN : CaptureBlock(a, lvl, fails)

SpecCapture == InitAnyRate /\ [][NextCapture]_vars

\* The playback scheduler of one connect() under inbound messages and the device clock.
NextPlayback ==
  \/ ConnectOnce
  \/ Disconnect
  \/ \E a \in Attempts :
       \/ ResumeDone(a)
       \/ MicGranted(a)
       \/ OnOpen(a)
       \/ SessionResolved(a)
  \/ \E a \in Attempts, d \in 0..MaxDur, i \in BOOLEAN : ServerMessage(a, d, i)
  \/ \E a \in Attempts, d \in 0..MaxDur, i \in BOOLEAN : MessageDeferred(a, d, i)
  \/ \E a \in Attempts, kind \in Malformed, i \in BOOLEAN : MalformedMessage(a, kind, i)
  \/ \E p \in pending : MessageRead(p)
  \/ Tick
  \/ \E i \in 1..MaxMsgs : OnEnded(i)

SpecPlayback == Init /\ [][NextPlayback]_vars

\* The playback scheduler with the mute toggle.
NextMute ==
  \/ NextPlayback
  \/ ToggleMute

SpecMute == Init /\ [][NextMute]_vars

\* The playback scheduler across disconnect() and a second connect().
NextReconnect ==
  \/ Connect
  \/ Disconnect
  \/ \E a \in Attempts :
       \/ ResumeDone(a)
       \/ MicGranted(a)
       \/ OnOpen(a)
  \/ \E a \in Attempts, d \in 0..MaxDur, i \in BOOLEAN : ServerMessage(a, d, i)
  \/ Tick

SpecReconnect == Init /\ [][NextReconnect]_vars

\* The lifecycle over two attempts with the microphone running.
NextRecapture ==
  \/ Connect
  \/ Disconnect
  \/ \E a \in Attempts : LifeStep(a)
  \/ \E a \in Attempts, lvl \in Levels, fails \in BOOLEAN : CaptureBlock(a, lvl, fails)

SpecRecapture == Init /\ [][NextRecapture]_vars

\* The audio utilities applied to blocks, rates and byte buffers.
NextAudio ==
  \/ \E conv \in Converters, buffer \in SeqsUpTo(BlockSamples, MaxLen), rate \in Rates :
       Downsample(conv, buffer, rate)
  \/ \E enc \in Encoders, input \in SeqsUpTo(EncSamples, 2), hostLE \in BOOLEAN :
       Encode(enc, input, hostLE)
  \/ \E data \in SeqsUpTo(ByteValues, 3), hostLE \in BOOLEAN : Decode(data, hostLE)
  \/ \E buffer \in SeqsUpTo(ByteValues, MaxLen) : ToBase64(buffer)
  \/ \E base64 \in SeqsUpTo(Base64Chars, 4) : FromBase64(base64)
  \/ \E buffer \in SeqsUpTo(BlockSamples, MaxLen), rate \in Rates, hostLE \in BOOLEAN :
       EncodeFrame(buffer, rate, hostLE)

SpecAudio == Init /\ [][NextAudio]_vars

\* ------------------------------------------------------------------ claims
\* A source that can still produce audio: started on a running context, not stopped,
\* not yet played to its end.
Audible(i) ==
  /\ outCtx[sources[i].ctx] = "running"
  /\ ~sources[i].stopped
  /\ sources[i].start + sources[i].dur > CurrentTime(sources[i].ctx)

\* C1: after a server message with the interrupted flag has been handled, every
\* source scheduled so far that has not finished is stopped, the Active Playback
\* Set is empty and nextStartTime is the output device's current time.
C1_InterruptionClearsPlayback ==
  (last.op = "message" /\ last.interrupted) =>
     /\ \A i \in DOMAIN sources : ~Audible(i)
     /\ audioSourcesRef = {}
     /\ outputAudioContextRef # NULL =>
          nextStartTimeRef = CurrentTime(outputAudioContextRef)

\* C2: no capture block delivered while isMuted is true is handed to the
\* transport's send.
C2_NoSendWhileMuted ==
  \A i \in DOMAIN sent : sent[i].kind = "audio" => ~sent[i].muted

\* C3: when disconnect() returns, every microphone stream is stopped, every capture
\* processor detached, every audio context closed, every transport session closed
\* (or closing), and status is 'disconnected'.
C3_DisconnectTearsDown ==
  last.op = "disconnect" =>
     /\ status = "disconnected"
     /\ \A a \in Attempts :
          /\ stream[a] # "live"
          /\ procState[a] # "attached"
          /\ inCtx[a] # "running"
          /\ outCtx[a] # "running"
          /\ sess[a] \notin {"opening", "open", "failing"}

\* The controller holds no device or session.
\* (sessionPromiseRef is never cleared by disconnect(); it is left out for the
\* versions that have it.)
HoldsNothing ==
  /\ inputAudioContextRef = NULL
  /\ outputAudioContextRef = NULL
  /\ streamRef = NULL
  /\ processorRef = NULL
  /\ inputSourceRef = NULL
  /\ IsPromise \/ currentSessionRef = NULL

\* C4: when disconnect() ran while a connect() was in flight, the continuation of
\* that connect() and the session's onopen leave the controller torn down: it
\* holds no device or session, the attempt's microphone is not live, and nothing
\* is sent after the disconnect (until the next connect()).
C4_DisconnectCancelsConnect ==
  (hist.discClean /\ hist.cancelled # {}) =>
     /\ HoldsNothing
     /\ \A a \in hist.cancelled : stream[a] # "live"
     /\ Len(sent) = hist.sentAtDisc

\* Steps made by a transport or audio callback.
CallbackOps == {"onopen", "onerror", "onclose", "message", "capture"}

\* C5: between disconnect() and the next connect(), no transport or audio callback
\* changes the controller: status stays as disconnect() left it and no resource
\* reference changes.
C5_QuietAfterDisconnect ==
  [][(hist.discClean /\ last'.op \in CallbackOps)
        => (status' = status /\ UNCHANGED refVars)]_vars

\* C6: after onerror status is 'error', after onclose it is 'disconnected', and in
\* both cases the microphone stream, the capture processor and the audio contexts
\* have been released.
C6_CloseAndErrorRelease ==
  /\ last.op = "onerror" => status = "error"
  /\ last.op = "onclose" => status = "disconnected"
  /\ last.op \in {"onerror", "onclose"} =>
        /\ inputAudioContextRef = NULL /\ outputAudioContextRef = NULL
        /\ streamRef = NULL /\ processorRef = NULL /\ inputSourceRef = NULL
        /\ \A a \in Attempts : procState[a] # "attached" /\ stream[a] # "live"

\* C7: once the opening of the session has failed, status is 'error' until the
\* next connect() or disconnect() of the user.
C7_OpenFailureIsError ==
  hist.outcome = "openFailed" => status = "error"

\* C8: when getUserMedia has rejected, status has become 'error' and is not
\* 'connected' until the next connect() or disconnect() of the user.
C8_MicFailureIsError ==
  /\ last.op = "micDenied" => status = "error"
  /\ hist.outcome = "micDenied" => status # "connected"

\* C9 as stated: the connect() calls made since the latest disconnect() have opened
\* at most one session and created at most one stream and one processor.
SinceDisconnect == {a \in Attempts : a > hist.discMark /\ a <= nAttempts}
C9_OneSessionSinceDisconnect ==
  /\ Cardinality(SinceDisconnect \cap hist.opened) <= 1
  /\ Cardinality({a \in SinceDisconnect : stream[a] # "none"}) <= 1
  /\ Cardinality({a \in SinceDisconnect : procState[a] # "none"}) <= 1

\* C9 as amended: a connect() made while status is 'connecting' or 'connected'
\* changes nothing, so at most one attempt is started (one session, one stream,
\* one processor) for as long as no connect() finds the hook idle again.
C9_ConnectNoopWhileActive ==
  /\ [](Cardinality(hist.run) <= 1)
  /\ [][(status \in {"connecting", "connected"} /\ last'.op \in {"connect", "connectNoop"})
          => UNCHANGED <<envVars, hookVars, refVars, playVars, attVars, devVars,
                         capVars>>]_vars
C9_Witness ==
  /\ last.op = "connectNoop"
  /\ status \in {"connecting", "connected"}
  /\ Cardinality(hist.run) = 1

\* An attempt went through undisturbed: microphone granted, session open (and its
\* promise resolved), continuation finished, no disconnect, close, error or
\* failure since connect() started.
Established ==
  /\ nAttempts > 0
  /\ ~hist.disturbed
  /\ pc[nAttempts] = "done"
  /\ stream[nAttempts] = "live"
  /\ sess[nAttempts] = "open"
  /\ IsWs \/ prom[nAttempts] = "resolved"
\* A block captured now would reach the transport.
Forwarding ==
  \E a \in Attempts :
     /\ procState[a] = "attached"
     /\ inCtx[procCtx[a]] = "running"
     /\ ~MuteGate(a)
     /\ SessionReady
     /\ currentSessionRef # NULL

\* C10: once such an attempt is through, status is 'connected', the capture
\* pipeline is installed and, unless the user has muted, it forwards blocks.
C10_EstablishedForwards ==
  Established => (status = "connected" /\ processorRef # NULL /\ (~isMuted => Forwarding))

\* C11: status changes only along the legal edges: 'connected' is entered only from
\* 'connecting', 'connecting' only from 'disconnected' or 'error' by connect(), and
\* 'error' only from 'connecting' or 'connected'.
C11_LegalStatusEdges ==
  [][/\ (status' = "connected" /\ status # "connected") => status = "connecting"
     /\ (status' = "connecting" /\ status # "connecting") =>
           (status \in {"disconnected", "error"} /\ last'.op = "connect")
     /\ (status' = "error" /\ status # "error") => status \in {"connecting", "connected"}
    ]_vars

\* C12: disconnect() is idempotent: a disconnect() that directly follows a
\* disconnect() changes nothing, and a disconnect() before anything was set up leaves
\* the hook as it was constructed.
C12_DisconnectIdempotent ==
  /\ [][(last.op = "disconnect" /\ last'.op = "disconnect") => UNCHANGED progVars]_vars
  /\ []((last.op = "disconnect" /\ nAttempts = 0) =>
          /\ status = "disconnected" /\ volumeLevel = 0 /\ nextStartTimeRef = 0
          /\ HoldsNothing /\ currentSessionRef = NULL /\ outputNodeRef = NULL
          /\ \A a \in Attempts : /\ inCtx[a] = "none" /\ outCtx[a] = "none"
                                 /\ stream[a] = "none" /\ procState[a] = "none"
                                 /\ sess[a] = "none")
\* disconnect() has run twice in a row after a connect() had set something up.
C12_Witness ==
  /\ last.op = "disconnect" /\ last.a = 2
  /\ nAttempts > 0
  /\ \E a \in Attempts : inCtx[a] = "closed"

\* C13: no two scheduled buffers that are not stopped overlap in time: on one output
\* context the later-scheduled one starts at or after the end of the earlier one.
C13_NoOverlap ==
  \A i, j \in DOMAIN sources :
     (i < j /\ sources[i].ctx = sources[j].ctx
        /\ ~sources[i].stopped /\ ~sources[j].stopped)
       => sources[j].start >= sources[i].start + sources[i].dur

\* A step in which the handler of a server message started one more source.
ScheduledNow ==
  /\ last'.op = "message" /\ last'.audio
  /\ Len(sources') = Len(sources) + 1
\* The source started in such a step.
NewSource == sources'[Len(sources')]
Max(x, y) == IF x >= y THEN x ELSE y

\* C14 as stated: each frame starts exactly at max(nextStartTime, current device
\* time), and right after scheduling nextStartTime is that start plus the duration.
C14_StartIsMax ==
  [][ScheduledNow =>
       /\ NewSource.start = Max(nextStartTimeRef, CurrentTime(outputAudioContextRef))
       /\ ~last'.interrupted => nextStartTimeRef' = NewSource.start + NewSource.dur
    ]_vars

\* C14 as amended: a frame starts at nextStartTime when that is not in the past;
\* otherwise at the current device time (sessionPromiseRef versions) or 50 ms after
\* it (playAudioChunk versions).  Right after scheduling nextStartTime is the start
\* plus the duration.
C14_StartIsClamped ==
  [][ScheduledNow =>
       LET cur == CurrentTime(outputAudioContextRef) IN
       /\ nextStartTimeRef >= cur => NewSource.start = nextStartTimeRef
       /\ nextStartTimeRef < cur =>
            NewSource.start = IF IsPromise THEN cur ELSE cur + Lookahead
       /\ ~last'.interrupted => nextStartTimeRef' = NewSource.start + NewSource.dur
    ]_vars
\* A frame has just been scheduled after a gap, with the 50 ms margin.
C14_Witness ==
  /\ last.op = "message" /\ last.audio /\ ~last.interrupted
  /\ sources # <<>>
  /\ ~IsPromise
  /\ outputAudioContextRef # NULL
  /\ CurrentTime(outputAudioContextRef) > 0
  /\ sources[Len(sources)].start = CurrentTime(outputAudioContextRef) + Lookahead
  /\ nextStartTimeRef = sources[Len(sources)].start + sources[Len(sources)].dur

\* C15: whenever a frame is scheduled, its start time (the value of nextStartTime
\* passed to the output device) is not earlier than the device's current time: also
\* for the first frame after an interruption, after a gap and after a reconnect.
C15_NeverInThePast ==
  [][ScheduledNow => NewSource.start >= CurrentTime(outputAudioContextRef)]_vars
\* A frame has just been scheduled on the context of a second connect(), after the
\* clock advanced, while sources of the first connect() exist.
C15_Witness ==
  /\ last.op = "message" /\ last.audio
  /\ Len(sources) >= 2
  /\ sources[1].ctx = 1
  /\ sources[Len(sources)].ctx = 2
  /\ outputAudioContextRef = 2
  /\ CurrentTime(2) > 0
  /\ sources[Len(sources)].start >= CurrentTime(2)

\* The sum of the durations of sources[i..Len(sources)].
RECURSIVE DurFrom(_)
DurFrom(i) == IF i > Len(sources) THEN 0 ELSE sources[i].dur + DurFrom(i + 1)

\* C16 as stated: after K consecutive frames with no interruption or disconnect in
\* between, nextStartTime is the first frame's start plus the sum of the durations.
C16_CursorIsSum ==
  hist.runStart # 0 =>
     nextStartTimeRef = sources[hist.runStart].start + DurFrom(hist.runStart)

\* C16 as amended: the same, provided no frame after the first arrived when the
\* cursor was already behind the device's current time.
C16_CursorIsSumNoUnderrun ==
  (hist.runStart # 0 /\ ~hist.underrun) =>
     nextStartTimeRef = sources[hist.runStart].start + DurFrom(hist.runStart)
\* Two frames scheduled back to back after the clock had advanced.
C16_Witness ==
  /\ hist.runStart # 0 /\ ~hist.underrun
  /\ Len(sources) >= hist.runStart + 1
  /\ sources[hist.runStart].start > 0
  /\ nextStartTimeRef = sources[hist.runStart].start + DurFrom(hist.runStart)

\* The arrival number of the message whose handler body ran in this step.
HandledMsg ==
  IF nMsgs' = nMsgs /\ pending' # pending
  THEN (CHOOSE p \in pending \ pending' : TRUE).msg
  ELSE nMsgs'

\* C17: inbound frames are scheduled in the order their messages arrived (a frame
\* of an earlier message starts no later than a frame of a later message on the
\* same context), and an interruption is never applied while a frame of an earlier
\* message is still waiting to be scheduled.
C17_ArrivalOrder ==
  [][/\ ScheduledNow =>
          \A i \in DOMAIN sources :
             sources[i].ctx = NewSource.ctx =>
                /\ sources[i].msg < NewSource.msg => sources[i].start <= NewSource.start
                /\ NewSource.msg < sources[i].msg => NewSource.start <= sources[i].start
     /\ (last'.op = "message" /\ last'.interrupted) =>
          \A p \in pending' : p.d > 0 => p.msg > HandledMsg
    ]_vars

\* C18: the frames handed to a session's send are in the order in which their
\* capture blocks were delivered.
C18_SendInCaptureOrder ==
  \A i, j \in DOMAIN sent :
     (i < j /\ sent[i].kind = "audio" /\ sent[j].kind = "audio"
        /\ sent[i].to = sent[j].to)
       => sent[i].blk < sent[j].blk
\* Two frames captured while the session promise was pending have just been sent by
\* its resolution.
C18_Witness ==
  /\ IsPromise
  /\ last.op = "resolved"
  /\ Len(sent) = 2
  /\ sent[1].blk = 1 /\ sent[2].blk = 2
  /\ queued = <<>>

\* C19: a capture block delivered while the transport session is not established is
\* dropped: no frame handed to the transport's send was captured before its session
\* had opened (nothing is held back and sent once the session becomes ready).
C19_EarlyBlockDropped ==
  \A i \in DOMAIN sent : sent[i].kind = "audio" => ~sent[i].early

\* C20: an exception thrown by the transport's send inside the capture callback does
\* not leave the callback, does not change the status, and leaves the processor
\* attached, so that later blocks are still encoded and sent.
C20_SendFailureSwallowed ==
  [][(last'.op = "capture" /\ last'.at = "send") =>
       /\ last'.threw # "escaped"
       /\ status' = status
       /\ procState' = procState
    ]_vars

\* The samples the encoder was given by the latest application.
Encoded == IF probe.fn = "frame" THEN probe.out ELSE probe.in

\* C25: every encoded frame has 2 bytes per (downsampled) sample, the low byte of each
\* 16-bit value first, for every block length and capture rate.
C25_TwoBytesLittleEndian ==
  (probe.fn \in {"frame", "floatTo16BitPCM"} /\ ~probe.threw) =>
    /\ Len(probe.bytes) = 2 * Len(Encoded)
    /\ \A i \in DOMAIN Encoded :
         /\ probe.bytes[2 * i - 1] = (Pcm16(Encoded[i]) % 65536) % 256
         /\ probe.bytes[2 * i] = (Pcm16(Encoded[i]) % 65536) \div 256

\* C26: with a source rate above the target rate, downsampleBuffer returns
\* floor(N * T / R) samples for an input of N samples, in every converter.
C26_DownsampledLength ==
  (probe.fn = "downsampleBuffer" /\ probe.rate > TargetRate) =>
    /\ ~probe.threw
    /\ Len(probe.out) = (Len(probe.in) * TargetRate) \div probe.rate

\* C27: with the source rate equal to the target rate, downsampleBuffer returns its
\* input unchanged, the empty block included.
C27_SameRateIdentity ==
  (probe.fn = "downsampleBuffer" /\ probe.rate = TargetRate) =>
    (~probe.threw /\ probe.out = probe.in)

C27_Witness ==
  /\ probe.fn = "downsampleBuffer" /\ probe.rate = TargetRate /\ probe.conv = "part_005"
  /\ Len(probe.in) = MaxLen /\ probe.in[1] # probe.in[2] /\ probe.out = probe.in

\* C28: with a source rate below the target rate, downsampleBuffer returns its input
\* unchanged or fails; it returns nothing else.
C28_UpsamplingPolicy ==
  (probe.fn = "downsampleBuffer" /\ probe.rate < TargetRate) =>
    (probe.threw \/ probe.out = probe.in)

C28_Witness ==
  /\ probe.fn = "downsampleBuffer" /\ probe.rate < TargetRate /\ probe.conv = "part_000"
  /\ Len(probe.in) = MaxLen /\ ~probe.threw /\ probe.out = probe.in

\* The 16-bit value the latest encoding stored for its sample i, read in the byte
\* order the encoder wrote it in.
Stored(i) == Int16At(probe.bytes, i, probe.conv = "dataview" \/ probe.le)

\* C29: the encoder saturates and scales: a sample at or above 1 is stored as 32767,
\* one at or below -1 as -32768, a non-negative one as the integer part of 32767 x,
\* a negative one as the integer part of 32768 x; every stored value lies in
\* -32768 .. 32767.
C29_SaturatesAndScales ==
  probe.fn = "floatTo16BitPCM" =>
    \A i \in DOMAIN probe.in :
      LET x == probe.in[i] IN
      /\ Stored(i) \in -32768..32767
      /\ x.n >= x.d => Stored(i) = 32767
      /\ x.n <= -x.d => Stored(i) = -32768
      /\ (0 <= x.n /\ x.n < x.d) => Stored(i) = (x.n * 32767) \div x.d
      /\ (-x.d < x.n /\ x.n < 0) => Stored(i) = -((-x.n * 32768) \div x.d)

C29_Witness ==
  /\ probe.fn = "floatTo16BitPCM" /\ Len(probe.in) = 2
  /\ probe.in[1] = [n |-> 2, d |-> 1] /\ Stored(1) = 32767
  /\ probe.in[2] = [n |-> -2, d |-> 1] /\ Stored(2) = -32768

\* x - y for the sample x = probe.in[i] and the value y decodeAudioData gives for the
\* bytes createPcmBlob made of it, in units of 1 / (32768 * x.d).
RoundTripDiff(i) ==
  LET x == probe.in[i]
      y == decodeAudioData(probe.bytes, probe.le).out[i]
  IN x.n * 32768 - y.n * x.d

RoundTripError(i) == IF RoundTripDiff(i) < 0 THEN -RoundTripDiff(i) ELSE RoundTripDiff(i)

\* the samples of the latest createPcmBlob that lie in the open interval (-1, 1)
Inside == {i \in DOMAIN probe.in : -probe.in[i].d < probe.in[i].n /\ probe.in[i].n < probe.in[i].d}

\* C30 as stated: encoding a sample of (-1, 1) and decoding it gives a value within
\* 1/32768 of the sample.
C30_RoundTripOneStep ==
  (probe.fn = "floatTo16BitPCM" /\ probe.conv = "int16array") =>
    \A i \in Inside : RoundTripError(i) <= probe.in[i].d

\* C30, amended: the value is below a non-negative sample by less than 2/32768, and
\* above a negative one by less than 1/32768.
C30_RoundTripTwoSteps ==
  (probe.fn = "floatTo16BitPCM" /\ probe.conv = "int16array") =>
    \A i \in Inside :
      /\ probe.in[i].n >= 0 =>
           (0 <= RoundTripDiff(i) /\ RoundTripDiff(i) < 2 * probe.in[i].d)
      /\ probe.in[i].n < 0 =>
           (-probe.in[i].d < RoundTripDiff(i) /\ RoundTripDiff(i) <= 0)

C30_Witness ==
  /\ probe.fn = "floatTo16BitPCM" /\ probe.conv = "int16array" /\ Len(probe.in) = 2
  /\ probe.in[1] = Smp(SampleScale - 1) /\ RoundTripError(1) > probe.in[1].d
  /\ probe.in[2] = Smp(1 - SampleScale)

\* C21: no exception raised inside the capture callback (loudness, downsampling,
\* encoding, send) leaves the callback; when the capture rate is below 16 kHz and
\* downsampleBuffer throws, the callback returns normally and only that block is lost.
C21_NothingEscapesCapture ==
  [][last'.op = "capture" => (last'.threw # "escaped" /\ procState' = procState)]_vars

\* C24: while mute is engaged and the pipeline is running, a capture block still sets
\* the loudness value to the loudness of the block.
C24_LoudnessWhileMuted ==
  [][\A a \in Attempts, lvl \in Levels :
       (isMuted /\ CaptureBlock(a, lvl, FALSE)) => volumeLevel' = lvl]_vars

\* C22: a malformed audio payload is dropped without an unhandled error: the handler
\* leaves nextStartTime, the Active Playback Set and the started sources as they were
\* (the interruption the same message may carry aside), and a well-formed frame that
\* follows is scheduled.
C22_MalformedFrameDropped ==
  [][/\ (last'.op = "message" /\ last'.at = "decode") =>
          /\ last'.threw = "caught"
          /\ ~last'.interrupted =>
                UNCHANGED <<nextStartTimeRef, audioSourcesRef, sources>>
     /\ (last.op = "message" /\ last.at = "decode" /\ last'.op = "message"
          /\ last'.audio /\ CanPlay) => Len(sources') = Len(sources) + 1
    ]_vars

\* C23: toggleMute() flips the mute flag and changes nothing else: the status,
\* nextStartTime, the Active Playback Set, the session handle, the device references
\* and the sources already started (with their start times) stay as they were.
C23_ToggleMuteOnlyMutes ==
  [][last'.op = "toggleMute" =>
       /\ isMuted' = ~isMuted
       /\ UNCHANGED <<status, refVars, nextStartTimeRef, audioSourcesRef, sources,
                      devVars, attVars, capVars>>
    ]_vars

C23_Witness ==
  /\ last.op = "toggleMute"
  /\ ~isMuted
  /\ status = "connected"
  /\ currentSessionRef # NULL
  /\ \E i \in DOMAIN sources : ~sources[i].stopped /\ sources[i].start + sources[i].dur > now

\* C31: arrayBufferToBase64 followed by base64ToUint8Array gives back the byte
\* sequence it was given, for every buffer, the empty and the odd-length ones included.
C31_Base64RoundTrip ==
  probe.fn = "arrayBufferToBase64" =>
    base64ToUint8Array(probe.out) = [threw |-> FALSE, out |-> probe.bytes]

C31_Witness ==
  /\ probe.fn = "arrayBufferToBase64"
  /\ probe.bytes = <<255, 0, 128, 1>>
  /\ probe.out = <<63, 48, 2, 0, 0, 16, Pad, Pad>>

\* The two samples have the same value.
SameValue(x, y) == x.d # 0 /\ y.d # 0 /\ x.n * y.d = y.n * x.d

\* C32: when downsampling, output sample i is the mean of the input samples at the
\* positions from round(i * ratio) up to, not including, round((i + 1) * ratio),
\* clamped to the input length, in every converter.
C32_WindowsAreRounded ==
  (probe.fn = "downsampleBuffer" /\ probe.rate > TargetRate /\ ~probe.threw) =>
    \A i \in DOMAIN probe.out :
      LET lo == Round((i - 1) * probe.rate, TargetRate)
          hi == Min(Round(i * probe.rate, TargetRate), Len(probe.in))
      IN hi > lo /\ SameValue(probe.out[i], Mean(probe.in, lo, hi))

\* C34: in every downsampling call with a source rate above the target rate, the
\* window of every output sample holds at least one input sample, so that no output
\* sample is NaN, also where the output length is rounded.
C34_NoEmptyWindow ==
  (probe.fn = "downsampleBuffer" /\ probe.rate > TargetRate) =>
    /\ Len(probe.out) = NewLength(probe.conv, Len(probe.in), probe.rate, TargetRate)
    /\ \A i \in DOMAIN probe.out :
         /\ WindowCount(probe.conv, Len(probe.in), probe.rate, TargetRate, i) > 0
         /\ probe.out[i] # NaN

C34_Witness ==
  /\ probe.fn = "downsampleBuffer"
  /\ probe.conv = "part_005"
  /\ probe.rate = 240
  /\ Len(probe.in) = 4
  /\ Len(probe.out) = 3
  /\ WindowCount("part_005", 4, 240, TargetRate, 3) = 1

\* A buffer that has been scheduled and has neither played to its end nor been stopped.
Sounding(i) ==
  /\ ~sources[i].stopped
  /\ outCtx[sources[i].ctx] = "running"
  /\ ~Finished(i)

\* C33: the Active Playback Set holds every buffer that has been scheduled and has
\* neither finished nor been stopped, and holds no stopped buffer.
C33_ActivePlaybackSet ==
  /\ \A i \in DOMAIN sources : Sounding(i) => i \in audioSourcesRef
  /\ \A i \in audioSourcesRef : ~sources[i].stopped

\* C35: the first frame a session schedules on the output device of its connect()
\* starts at that device's current time, or the lookahead later, whatever the cursor of an earlier
\* session was.
C35_CursorNotCarriedOver ==
  [][(/\ ScheduledNow
      /\ last'.a = NewSource.ctx
      /\ \A i \in DOMAIN sources : sources[i].ctx # NewSource.ctx) =>
       NewSource.start <= CurrentTime(NewSource.ctx) + Lookahead]_vars

\* C36: whenever isMuted is false and the session is connected, the capture block the
\* installed processor delivers next is handed to the transport's send (or queued
\* behind the session promise): also after
\* mute and unmute, and in a session that was started while isMuted was true.
C36_UnmutedFramesFlow ==
  [][\A a \in Attempts, lvl \in Levels :
       (/\ ~isMuted
        /\ status = "connected"
        /\ processorRef = a
        /\ currentSessionRef # NULL
        /\ sess[currentSessionRef] = "open"
        /\ ~DownsampleThrows
        /\ CaptureBlock(a, lvl, FALSE)) => (sent' # sent \/ queued' # queued)]_vars

\* C37: every audio frame handed to the transport's send was handed over while
\* status was 'connecting' or 'connected', never while it was 'disconnected' or 'error'.
C37_NoSendWhenIdle ==
  \A i \in DOMAIN sent :
     sent[i].kind = "audio" => sent[i].st \in {"connecting", "connected"}

\* C38: after a disconnect() that found no connect() in flight, and until the next
\* connect(), no capture frame (one queued behind the session promise included) and
\* no delayed greeting is sent on the transport.
C38_NothingSentAfterDisconnect ==
  (hist.discClean /\ hist.cancelled = {}) =>
    \A i \in DOMAIN sent : i > hist.sentAtDisc => sent[i].kind \notin {"audio", "greeting"}

\* C39: when the catch handler of connect() has set status to 'error' after a
\* rejected getUserMedia or a failed opening of the session, no audio context of the
\* hook is running and no microphone stream is live.
C39_FailureReleases ==
  (last.op \in {"micDenied", "rejected"} /\ status = "error") =>
    /\ inputAudioContextRef = NULL /\ outputAudioContextRef = NULL /\ streamRef = NULL
    /\ \A a \in Attempts :
         inCtx[a] # "running" /\ outCtx[a] # "running" /\ stream[a] # "live"
====
